---- MODULE Spec2Model ----
(***************************************************************************)
(* MergeOrderLog (main.go): the record-reconstruction, merge and           *)
(* chronological-ordering pipeline.                                        *)
(*                                                                         *)
(* A file's content is a sequence of tokens.  A token stands for a run of  *)
(* bytes that the program never looks inside: a timestamp in one of the    *)
(* two recognised forms, a piece of free text, the continuation delimiter, *)
(* a line feed, a carriage return.  A line is the token sequence between   *)
(* two line feeds.                                                         *)
(***************************************************************************)
EXTENDS Integers, Sequences, FiniteSets, TLC

(***************************************************************************)
(* Program constants (main.go, var block).                                 *)
(***************************************************************************)
defaultPattern == "comma"      \* \d{4}-\d{2}-\d{2} \d{2}:\d{2}:\d{2},\d{3}
supportPattern == "period"     \* \d{4}-\d{2}-\d{2} \d{2}:\d{2}:\d{2}\.\d{3}
NoPattern == ""                \* the empty string determineDateTimePattern returns
lineContinuationDelimiter == "appTesting"
workerCount == 5
linesToCheck == 5

(***************************************************************************)
(* Tokens.                                                                 *)
(***************************************************************************)
NL == "\n"
CR == "\r"
NUL == "\\0"                   \* a byte of the hole a write past the end leaves
P100 == "2024-01-01 10:00:00.100"
P050 == "2024-01-01 10:00:00.050"
C100 == "2024-01-01 10:00:00,100"
C050 == "2024-01-01 10:00:00,050"
PBad == "2024-13-01 10:00:00.100"   \* matches the period pattern, month 13 does not parse
PYear0 == "0000-01-01 00:00:00.000" \* matches the period pattern, parses to year 0
TStart == " start"
TStack == "  stack trace"
TOther == " other"
TBig == "<64KiB of text>"      \* text at least as long as bufio.MaxScanTokenSize

\* period stamps one second apart, later than every stamp above
Seconds ==
    <<"2024-01-01 10:00:01.000", "2024-01-01 10:00:02.000", "2024-01-01 10:00:03.000",
      "2024-01-01 10:00:04.000", "2024-01-01 10:00:05.000", "2024-01-01 10:00:06.000",
      "2024-01-01 10:00:07.000", "2024-01-01 10:00:08.000", "2024-01-01 10:00:09.000",
      "2024-01-01 10:00:10.000", "2024-01-01 10:00:11.000", "2024-01-01 10:00:12.000",
      "2024-01-01 10:00:13.000", "2024-01-01 10:00:14.000", "2024-01-01 10:00:15.000">>
SecondStamps == {Seconds[k] : k \in 1..Len(Seconds)}

CommaStamps == {C100, C050}
PeriodStamps == {P100, P050, PBad, PYear0} \cup SecondStamps

\* time.Time{} is January 1, year 1, 00:00:00 UTC; instants are counted from it.
ZeroTime == 0

\* strings.Replace(match, ",", ".", 1) on a matched stamp
Normalize(tok) ==
    CASE tok = C100 -> P100
      [] tok = C050 -> P050
      [] OTHER -> tok

\* time.Parse(dateLayoutDefault, s): the layout has a period before the
\* milliseconds, so only the period forms with a valid date parse; the instant
\* is counted in model units, year 0 lying before the zero time.
TimeParses(tok) == tok \in {P100, P050, PYear0} \cup SecondStamps
TimeParse(tok) ==
    CASE tok = P100 -> 100
      [] tok = P050 -> 50
      [] tok = PYear0 -> -1
      [] tok \in SecondStamps -> 1000 * (CHOOSE k \in 1..Len(Seconds) : Seconds[k] = tok)
      [] OTHER -> ZeroTime

(***************************************************************************)
(* strings and regexp helpers.                                             *)
(***************************************************************************)
\* one token matches the compiled pattern; the empty pattern matches the
\* empty string, hence at every position of every line
TokMatches(pattern, tok) ==
    \/ pattern = defaultPattern /\ tok \in CommaStamps
    \/ pattern = supportPattern /\ tok \in PeriodStamps

\* regexp.MatchString(pattern, line)
MatchString(pattern, line) ==
    \/ pattern = NoPattern
    \/ \E i \in 1..Len(line) : TokMatches(pattern, line[i])

\* pattern.FindString(line): the leftmost match, "" when there is none
FindString(pattern, line) ==
    IF \E i \in 1..Len(line) : TokMatches(pattern, line[i])
    THEN line[CHOOSE i \in 1..Len(line) :
                 /\ TokMatches(pattern, line[i])
                 /\ \A k \in 1..(i - 1) : ~TokMatches(pattern, line[k])]
    ELSE ""

\* strings.TrimRight(s, cutset)
RECURSIVE TrimRight(_, _)
TrimRight(s, cutset) ==
    IF s # <<>> /\ s[Len(s)] \in cutset
    THEN TrimRight(SubSeq(s, 1, Len(s) - 1), cutset)
    ELSE s

\* strings.Split(s, sep): n separators give n + 1 pieces
RECURSIVE Split(_, _)
Split(s, sep) ==
    IF \A i \in 1..Len(s) : s[i] # sep
    THEN <<s>>
    ELSE LET i == CHOOSE i \in 1..Len(s) :
                      s[i] = sep /\ \A k \in 1..(i - 1) : s[k] # sep
         IN  <<SubSeq(s, 1, i - 1)>> \o Split(SubSeq(s, i + 1, Len(s)), sep)

\* strings.Join(elems, sep)
RECURSIVE Join(_, _)
Join(elems, sep) ==
    IF elems = <<>> THEN <<>>
    ELSE IF Len(elems) = 1 THEN elems[1]
    ELSE elems[1] \o <<sep>> \o Join(Tail(elems), sep)

\* what a loop of outFile.WriteString(l + "\n") over ls writes
RECURSIVE WriteLines(_)
WriteLines(ls) ==
    IF ls = <<>> THEN <<>> ELSE ls[1] \o <<NL>> \o WriteLines(Tail(ls))

\* The lines a loop of reader.ReadString('\n') gets with a nil error, each with
\* its line feed.  The bytes after the last line feed come back together with
\* io.EOF, and every loop of main.go breaks on that error before using them.
ReadStringLines(data) ==
    LET parts == Split(data, NL)
    IN  [i \in 1..(Len(parts) - 1) |-> parts[i] \o <<NL>>]

\* The lines bufio.Scanner yields: split at line feeds, one trailing carriage
\* return dropped, a non-empty unterminated last line included.  Scan() returns
\* false at the first line that does not fit the scanner's buffer.
DropCR(line) ==
    IF line # <<>> /\ line[Len(line)] = CR THEN SubSeq(line, 1, Len(line) - 1) ELSE line
ScanAll(data) ==
    LET parts == Split(data, NL)
        n == IF parts[Len(parts)] = <<>> THEN Len(parts) - 1 ELSE Len(parts)
    IN  [i \in 1..n |-> DropCR(parts[i])]
TooLong(line) == \E i \in 1..Len(line) : line[i] = TBig
ScanLines(data) ==
    LET all == ScanAll(data)
        bad == {i \in 1..Len(all) : TooLong(all[i])}
    IN  IF bad = {} THEN all
        ELSE SubSeq(all, 1, (CHOOSE i \in bad : \A k \in bad : i <= k) - 1)

(***************************************************************************)
(* The stages as functions of file contents.                               *)
(***************************************************************************)
NoErr == -1    \* errAfter of a source that never fails

\* the lines a reader gets before the source fails: all of them when errAfter
\* is NoErr, else the first errAfter
Readable(lines, errAfter) ==
    IF errAfter = NoErr \/ errAfter >= Len(lines) THEN lines
    ELSE SubSeq(lines, 1, errAfter)

\* the loop of determineDateTimePattern over the scanned lines
RECURSIVE DetectLoop(_, _)
DetectLoop(lines, i) ==
    IF i > linesToCheck \/ i > Len(lines) THEN NoPattern
    ELSE IF MatchString(defaultPattern, lines[i]) THEN defaultPattern
    ELSE IF MatchString(supportPattern, lines[i]) THEN supportPattern
    ELSE DetectLoop(lines, i + 1)

\* determineDateTimePattern(filePath): "" when the file cannot be opened
\* (errAfter = 0) and when the loop ends without a match
determineDateTimePattern(data, errAfter) ==
    IF errAfter = 0 THEN NoPattern
    ELSE DetectLoop(Readable(ScanLines(data), errAfter), 1)

\* The read loop of processLogFile: cur is currentLogEntry, out the records
\* handed to outFile.WriteString so far.
RECURSIVE CoalesceLoop(_, _, _, _)
CoalesceLoop(lines, pattern, cur, out) ==
    IF lines = <<>> THEN [cur |-> cur, out |-> out]
    ELSE LET line == TrimRight(Head(lines), {CR, NL})
         IN  IF MatchString(pattern, line)
             THEN CoalesceLoop(Tail(lines), pattern, line,
                               IF cur # <<>> THEN Append(out, cur) ELSE out)
             ELSE IF cur # <<>>
             THEN CoalesceLoop(Tail(lines), pattern,
                               cur \o <<lineContinuationDelimiter>> \o line, out)
             ELSE CoalesceLoop(Tail(lines), pattern, cur, out)

\* processLogFile after its files are open: the records it writes, in order,
\* and whether it returns an error (a read that fails with an error other
\* than io.EOF returns at once, the accumulated entry unwritten).
Coalesce(data, pattern, errAfter) ==
    LET lines == ReadStringLines(data)
        fails == errAfter # NoErr /\ errAfter <= Len(lines)
        r == CoalesceLoop(Readable(lines, errAfter), pattern, <<>>, <<>>)
    IN  [recs |-> IF ~fails /\ r.cur # <<>> THEN Append(r.out, r.cur) ELSE r.out,
         err |-> fails]

\* the error processLogFile returns: nil, the one of line 213 when detection
\* returns "", the one of line 243 when a read fails
ErrNil == "<nil>"
ErrPattern == "skipping file due to unrecognized date pattern"
ErrRead == "error reading line"
processLogFile(data, errAfter) ==
    LET pattern == determineDateTimePattern(data, errAfter)
    IN  IF pattern = NoPattern THEN ErrPattern
        ELSE IF Coalesce(data, pattern, errAfter).err THEN ErrRead
        ELSE ErrNil

\* the concatenation of a sequence of token sequences
RECURSIVE Flatten(_)
Flatten(ss) == IF ss = <<>> THEN <<>> ELSE ss[1] \o Flatten(Tail(ss))

\* variant: a merge that gives up at the first file it cannot open
RECURSIVE MergeLoopAbort(_, _)
MergeLoopAbort(files, logFiles) ==
    IF logFiles = <<>> \/ Head(logFiles) \notin DOMAIN files THEN <<>>
    ELSE Flatten(ReadStringLines(files[Head(logFiles)]))
             \o MergeLoopAbort(files, Tail(logFiles))

\* mergeProcessedLogs: the bytes written to the merged file.  Each line read
\* with a nil error is written as read; a file that cannot be opened is skipped.
RECURSIVE MergeLoop(_, _)
MergeLoop(files, logFiles) ==
    IF logFiles = <<>> THEN <<>>
    ELSE (IF Head(logFiles) \in DOMAIN files
          THEN Flatten(ReadStringLines(files[Head(logFiles)]))
          ELSE <<>>)
             \o MergeLoop(files, Tail(logFiles))

\* variant: a line that does not parse is given an instant after every stamp
parseTimestampLate(line, pattern) ==
    LET match == FindString(pattern, line)
        normalized == Normalize(match)
    IN  IF match = "" \/ ~TimeParses(normalized)
        THEN [t |-> TimeParse(Seconds[Len(Seconds)]) + 1, err |-> TRUE]
        ELSE [t |-> TimeParse(normalized), err |-> FALSE]

\* parseTimestampFromLine: the instant and whether an error is returned
parseTimestampFromLine(line, pattern) ==
    LET match == FindString(pattern, line)
        normalized == Normalize(match)
    IN  IF match = "" THEN [t |-> ZeroTime, err |-> TRUE]
        ELSE IF ~TimeParses(normalized) THEN [t |-> ZeroTime, err |-> TRUE]
        ELSE [t |-> TimeParse(normalized), err |-> FALSE]

\* the LogLine slice orderByDate builds from rawLines
LogLines(rawLines, pattern) ==
    [i \in 1..Len(rawLines) |->
        [Timestamp |-> parseTimestampFromLine(rawLines[i], pattern).t,
         Raw |-> rawLines[i]]]

\* variant: the comparator with After in place of Before
LessAfter(a, b) == a.Timestamp > b.Timestamp

\* the comparator handed to sort.Slice
Less(a, b) == a.Timestamp < b.Timestamp

\* sort's insertion sort: each element moves left while it is less than its
\* left neighbour
RECURSIVE InsertLeft(_, _)
InsertLeft(s, j) ==
    IF j > 1 /\ Less(s[j], s[j - 1])
    THEN InsertLeft([s EXCEPT ![j] = s[j - 1], ![j - 1] = s[j]], j - 1)
    ELSE s
RECURSIVE InsertionSort(_, _)
InsertionSort(s, i) ==
    IF i > Len(s) THEN s ELSE InsertionSort(InsertLeft(s, i), i + 1)

\* every arrangement of the elements at the positions idx in which no element
\* is less than an earlier one
RECURSIVE Arrangements(_, _)
Arrangements(s, idx) ==
    IF idx = {} THEN {<<>>}
    ELSE UNION {{<<s[i]>> \o rest : rest \in Arrangements(s, idx \ {i})} :
                  i \in {i \in idx : \A k \in idx : ~Less(s[k], s[i])}}

\* sort.Slice(lines, less): the results it may give.  The library sorts a
\* slice of at most maxInsertion elements by insertion sort; a longer one goes
\* through pattern-defeating quicksort, which is documented as not stable:
\* any arrangement ordered by less may come out.
maxInsertion == 12
SortSlice(s) ==
    IF Len(s) <= maxInsertion THEN {InsertionSort(s, 2)}
    ELSE Arrangements(s, 1..Len(s))

\* rawLines of orderByDate
RawLines(content) == Split(TrimRight(content, {CR, NL}), NL)

\* orderByDate: the contents it may write to the output file
orderByDate(content, pattern) ==
    LET rawLines == RawLines(content)
    IN  IF pattern = NoPattern THEN {Join(rawLines, NL)}
        ELSE {Join([i \in 1..Len(sorted) |-> sorted[i].Raw], NL) :
                 sorted \in SortSlice(LogLines(rawLines, pattern))}

\* the read loop of formatSupport: buf is logBuffer, out the bytes written
RECURSIVE FormatLoop(_, _, _, _)
FormatLoop(lines, pattern, buf, out) ==
    IF lines = <<>> THEN out \o WriteLines(buf)
    ELSE LET line == TrimRight(Head(lines), {CR, NL})
         IN  IF MatchString(pattern, line)
             THEN FormatLoop(Tail(lines), pattern, <<>>,
                             out \o WriteLines(buf)
                                 \o WriteLines(Split(line, lineContinuationDelimiter)))
             ELSE FormatLoop(Tail(lines), pattern, Append(buf, line), out)

\* formatSupport: the bytes written to the final file
formatSupport(content, pattern) ==
    FormatLoop(ReadStringLines(content), pattern, <<>>, <<>>)

(***************************************************************************)
(* Bounds of the model.                                                    *)
(***************************************************************************)
MaxFiles == 2      \* input files of a run
MaxLines == 3      \* physical lines of a run's input files, all together
MaxMerged == 3     \* lines of a merged stream handed to the Orderer alone
SortLen == 13      \* lines of the long merged streams handed to the Orderer

(***************************************************************************)
(* Paths.  A path of the destination directory is <<base name, count>>:    *)
(* count 0 is the base name itself, count k > 0 the name getUniqueFileName *)
(* builds from it.                                                         *)
(***************************************************************************)
BaseNames == <<"app.log", "db.log", "sys.log", "web.log",
               "api.log", "job.log", "net.log", "ui.log">>
mergedFilePath == <<"MERGED.log", 0>>
orderedFilePath == <<"MERGED_ORDERED.log", 0>>
finalFormattedFilePath == <<"FINAL_FORMATTED.log", 0>>

\* the directory files with the file at path created or replaced, holding data
Put(files, path, data) ==
    [q \in DOMAIN files \cup {path} |-> IF q = path THEN data ELSE files[q]]

VARIABLES
    inputs,             \* the discovered log files: [name, data, errAfter]
    fs,                 \* the destination directory: existing path -> content
    pc,                 \* where main is
    enq,                \* how many paths main has sent on jobs
    jobs,               \* the jobs channel's buffer
    wk,                 \* per input file, the state of the worker processing it
    exited,             \* workers that have returned (wg.Done called)
    results,            \* the results channel's buffer
    errs,               \* the errs channel's buffer
    processedLogFiles,  \* what processLogs returned
    dateTimePattern,    \* main's dateTimePattern
    unwritable          \* the paths at which os.Create and os.WriteFile fail

vars == <<inputs, fs, pc, enq, jobs, wk, exited, results, errs,
          processedLogFiles, dateTimePattern, unwritable>>

NFiles == Len(inputs)
Idle == [pc |-> "idle", dest |-> <<"", 0>>, todo |-> <<>>, off |-> 0, err |-> FALSE]
Busy == {j \in 1..NFiles : wk[j].pc \in {"process", "write"}}

\* variant: the given path, whatever exists at it
getUniqueFileNameNoCheck(files, base) == <<base, 0>>

\* getUniqueFileName(filePath) for filePath = processFolder/base
RECURSIVE UniqueFrom(_, _, _)
UniqueFrom(files, base, count) ==
    IF <<base, count>> \notin DOMAIN files THEN <<base, count>>
    ELSE UniqueFrom(files, base, count + 1)
getUniqueFileName(files, base) == UniqueFrom(files, base, 0)

\* a write of bytes at offset off of a file holding data; a write past the
\* end leaves a hole of zero bytes
WriteAt(data, off, bytes) ==
    LET padded == IF Len(data) < off
                  THEN data \o [i \in 1..(off - Len(data)) |-> NUL]
                  ELSE data
    IN  SubSeq(padded, 1, off) \o bytes
            \o SubSeq(padded, off + Len(bytes) + 1, Len(padded))

(***************************************************************************)
(* processLogs: main's side.                                               *)
(***************************************************************************)
\* variant: channels one slot short of the number of input files
ChanCapShort == NFiles - 1

\* the capacity of jobs, results and errs: make(chan ..., len(logFiles))
ChanCap == NFiles

\* jobs <- logFile; the send blocks while the buffer is full
Enqueue ==
    /\ pc = "enqueue"
    /\ enq < NFiles
    /\ Len(jobs) < ChanCap
    /\ jobs' = Append(jobs, enq + 1)
    /\ enq' = enq + 1
    /\ UNCHANGED <<inputs, fs, pc, wk, exited, results, errs,
                   processedLogFiles, dateTimePattern, unwritable>>

\* close(jobs)
CloseJobs ==
    /\ pc = "enqueue"
    /\ enq = NFiles
    /\ pc' = "wait"
    /\ UNCHANGED <<inputs, fs, enq, jobs, wk, exited, results, errs,
                   processedLogFiles, dateTimePattern, unwritable>>

\* variant: a barrier that waits for the job queue to drain, not for the workers
QueueDrained == jobs = <<>>

\* wg.Wait() returns once every worker has called wg.Done
AllWorkersDone == exited = workerCount

\* wg.Wait(), close(results), close(errs), and the two collecting loops
WaitAndCollect ==
    /\ pc = "wait"
    /\ AllWorkersDone
    /\ processedLogFiles' = results
    /\ pc' = "merge"
    /\ UNCHANGED <<inputs, fs, enq, jobs, wk, exited, results, errs, dateTimePattern,
                   unwritable>>

(***************************************************************************)
(* processLogs: the workers.  Workers are interchangeable, so the model    *)
(* keeps the state of each job in hand and counts the workers.             *)
(***************************************************************************)
\* variant: a goroutine per input file, with no limit on their number
StartJobUnbounded ==
    /\ jobs # <<>>
    /\ LET j == Head(jobs)
       IN  wk' = [wk EXCEPT ![j] =
                     [Idle EXCEPT !.pc = "process",
                                  !.dest = getUniqueFileName(fs, inputs[j].name)]]
    /\ jobs' = Tail(jobs)
    /\ UNCHANGED <<inputs, fs, pc, enq, exited, results, errs,
                   processedLogFiles, dateTimePattern, unwritable>>

\* a worker receives the next path from jobs and picks the destination name
StartJob ==
    /\ jobs # <<>>
    /\ Cardinality(Busy) + exited < workerCount
    /\ LET j == Head(jobs)
       IN  wk' = [wk EXCEPT ![j] =
                     [Idle EXCEPT !.pc = "process",
                                  !.dest = getUniqueFileName(fs, inputs[j].name)]]
    /\ jobs' = Tail(jobs)
    /\ UNCHANGED <<inputs, fs, pc, enq, exited, results, errs,
                   processedLogFiles, dateTimePattern, unwritable>>

\* variant: a processLogFile that creates the output file before detection
OpenFilesCreateFirst(j) ==
    /\ wk[j].pc = "process"
    /\ LET in == inputs[j]
           pattern == determineDateTimePattern(in.data, in.errAfter)
           c == Coalesce(in.data, pattern, in.errAfter)
       IN  /\ fs' = Put(fs, wk[j].dest, <<>>)
           /\ IF pattern = NoPattern
              THEN wk' = [wk EXCEPT ![j].pc = "write", ![j].err = TRUE]
              ELSE wk' = [wk EXCEPT ![j].pc = "write", ![j].todo = c.recs,
                                   ![j].err = c.err]
    /\ UNCHANGED <<inputs, pc, enq, jobs, exited, results, errs,
                   processedLogFiles, dateTimePattern, unwritable>>

\* processLogFile up to os.Create: detection, and the output file created or
\* truncated; it returns an error when no pattern is detected and when
\* os.Create fails
OpenFiles(j) ==
    /\ wk[j].pc = "process"
    /\ LET in == inputs[j]
           pattern == determineDateTimePattern(in.data, in.errAfter)
           c == Coalesce(in.data, pattern, in.errAfter)
       IN  IF pattern = NoPattern \/ wk[j].dest \in unwritable
           THEN /\ wk' = [wk EXCEPT ![j].pc = "write", ![j].err = TRUE]
                /\ fs' = fs
           ELSE /\ wk' = [wk EXCEPT ![j].pc = "write", ![j].todo = c.recs,
                                    ![j].err = c.err]
                /\ fs' = Put(fs, wk[j].dest, <<>>)
    /\ UNCHANGED <<inputs, pc, enq, jobs, exited, results, errs,
                   processedLogFiles, dateTimePattern, unwritable>>

\* outFile.WriteString(currentLogEntry + "\n"), at the worker's own offset
WriteRecord(j) ==
    /\ wk[j].pc = "write"
    /\ wk[j].todo # <<>>
    /\ LET bytes == Append(Head(wk[j].todo), NL)
       IN  /\ fs' = [fs EXCEPT ![wk[j].dest] = WriteAt(@, wk[j].off, bytes)]
           /\ wk' = [wk EXCEPT ![j].todo = Tail(@), ![j].off = @ + Len(bytes)]
    /\ UNCHANGED <<inputs, pc, enq, jobs, exited, results, errs,
                   processedLogFiles, dateTimePattern, unwritable>>

\* variant: a worker that sends the destination path on results even when
\* processLogFile returned an error
ReportBoth(j) ==
    /\ wk[j].pc = "write"
    /\ wk[j].todo = <<>>
    /\ wk' = [wk EXCEPT ![j].pc = "done"]
    /\ errs' = IF wk[j].err THEN Append(errs, j) ELSE errs
    /\ results' = Append(results, wk[j].dest)
    /\ UNCHANGED <<inputs, fs, pc, enq, jobs, exited, processedLogFiles,
                   dateTimePattern, unwritable>>

\* processLogFile returns; the worker sends on errs or on results, and the
\* send blocks while the buffer is full
Report(j) ==
    /\ wk[j].pc = "write"
    /\ wk[j].todo = <<>>
    /\ Len(IF wk[j].err THEN errs ELSE results) < ChanCap
    /\ wk' = [wk EXCEPT ![j].pc = "done"]
    /\ IF wk[j].err
       THEN errs' = Append(errs, j) /\ results' = results
       ELSE results' = Append(results, wk[j].dest) /\ errs' = errs
    /\ UNCHANGED <<inputs, fs, pc, enq, jobs, exited, processedLogFiles,
                   dateTimePattern, unwritable>>

\* a worker's range over jobs ends: jobs is closed and empty
WorkerExit ==
    /\ pc = "wait"
    /\ jobs = <<>>
    /\ Cardinality(Busy) + exited < workerCount
    /\ exited' = exited + 1
    /\ UNCHANGED <<inputs, fs, pc, enq, jobs, wk, results, errs,
                   processedLogFiles, dateTimePattern, unwritable>>

(***************************************************************************)
(* main after processLogs.                                                 *)
(***************************************************************************)
\* mergeProcessedLogs; it returns at once when os.Create fails
Merge ==
    /\ pc = "merge"
    /\ fs' = IF mergedFilePath \in unwritable THEN fs
             ELSE Put(fs, mergedFilePath, MergeLoop(fs, processedLogFiles))
    /\ pc' = "detect"
    /\ UNCHANGED <<inputs, enq, jobs, wk, exited, results, errs,
                   processedLogFiles, dateTimePattern, unwritable>>

\* determineDateTimePattern(mergedFilePath): "" when there is no merged file
DetectMerged ==
    /\ pc = "detect"
    /\ dateTimePattern' = IF mergedFilePath \in DOMAIN fs
                          THEN determineDateTimePattern(fs[mergedFilePath], NoErr)
                          ELSE NoPattern
    /\ pc' = "order"
    /\ UNCHANGED <<inputs, fs, enq, jobs, wk, exited, results, errs,
                   processedLogFiles, unwritable>>

\* orderByDate; it returns without writing when os.ReadFile or os.WriteFile
\* fails
Order ==
    /\ pc = "order"
    /\ IF mergedFilePath \notin DOMAIN fs \/ orderedFilePath \in unwritable
       THEN fs' = fs
       ELSE \E out \in orderByDate(fs[mergedFilePath], dateTimePattern) :
               fs' = Put(fs, orderedFilePath, out)
    /\ pc' = "format"
    /\ UNCHANGED <<inputs, enq, jobs, wk, exited, results, errs,
                   processedLogFiles, dateTimePattern, unwritable>>

\* formatSupport; it returns without writing when os.Open or os.Create fails
Format ==
    /\ pc = "format"
    /\ fs' = IF orderedFilePath \notin DOMAIN fs \/ finalFormattedFilePath \in unwritable
             THEN fs
             ELSE Put(fs, finalFormattedFilePath,
                      formatSupport(fs[orderedFilePath], dateTimePattern))
    /\ pc' = "done"
    /\ UNCHANGED <<inputs, enq, jobs, wk, exited, results, errs,
                   processedLogFiles, dateTimePattern, unwritable>>

(***************************************************************************)
(* The run: main from the call of processLogs on.                          *)
(***************************************************************************)
\* the physical lines input files are made of
LineSet ==
    {<<P100, TStart>>, <<TStack>>, <<P050, TOther>>, <<C100, TOther>>, <<TBig>>}

SeqsUpTo(S, n) == UNION {[1..k -> S] : k \in 0..n}

RECURSIVE SumLen(_)
SumLen(ss) == IF ss = <<>> THEN 0 ELSE Len(ss[1]) + SumLen(Tail(ss))

\* the state before the first step, uw the paths that cannot be created
QuietWith(ins, files, at, uw) ==
    /\ inputs = ins
    /\ fs = files
    /\ pc = at
    /\ enq = 0
    /\ jobs = <<>>
    /\ wk = [j \in 1..Len(ins) |-> Idle]
    /\ exited = 0
    /\ results = <<>>
    /\ errs = <<>>
    /\ processedLogFiles = <<>>
    /\ dateTimePattern = NoPattern
    /\ unwritable = uw

\* the state before the first step when every path can be created
Quiet(ins, files, at) == QuietWith(ins, files, at, {})

EmptyDir == [p \in {} |-> <<>>]

Init ==
    \E n \in 1..MaxFiles :
      \E ls \in [1..n -> SeqsUpTo(LineSet, MaxLines)] :
        \E nm \in [1..n -> 1..n] :
          \E ea \in [1..n -> {NoErr, 0}] :
            /\ SumLen(ls) <= MaxLines
            /\ \A i \in 1..n : nm[i] <= i
            /\ Quiet([i \in 1..n |->
                        [name |-> BaseNames[nm[i]], data |-> WriteLines(ls[i]),
                         errAfter |-> ea[i]]],
                     EmptyDir, "enqueue")

Next ==
    \/ Enqueue
    \/ CloseJobs
    \/ StartJob
    \/ \E j \in 1..NFiles : OpenFiles(j)
    \/ \E j \in 1..NFiles : WriteRecord(j)
    \/ \E j \in 1..NFiles : Report(j)
    \/ WorkerExit
    \/ WaitAndCollect
    \/ Merge
    \/ DetectMerged
    \/ Order
    \/ Format

Spec == Init /\ [][Next]_vars

(***************************************************************************)
(* The pool alone: runs over files of few shapes, for the properties of    *)
(* the dispatcher that do not depend on what the files hold.               *)
(***************************************************************************)
MaxPoolFiles == 2
PoolContents ==
    {WriteLines(<<<<P050, TOther>>>>),
     WriteLines(<<<<P100, TStart>>, <<TStack>>, <<P050, TOther>>>>),
     WriteLines(<<<<TStack>>>>)}

InitPool ==
    \E n \in 1..MaxPoolFiles :
      \E d \in [1..n -> PoolContents] :
        \E nm \in [1..n -> 1..n] :
          \E ea \in [1..n -> {NoErr, 1}] :
            /\ \A i \in 1..n : nm[i] <= i
            /\ Quiet([i \in 1..n |->
                        [name |-> BaseNames[nm[i]], data |-> d[i],
                         errAfter |-> ea[i]]],
                     EmptyDir, "enqueue")

SpecPool == InitPool /\ [][Next]_vars

(***************************************************************************)
(* Runs over more files than there are workers, each file one record.      *)
(***************************************************************************)
MaxManyFiles == 6

InitMany ==
    \E n \in 1..MaxManyFiles :
        Quiet([i \in 1..n |->
                  [name |-> BaseNames[i], data |-> WriteLines(<<<<P050, TOther>>>>),
                   errAfter |-> NoErr]],
              EmptyDir, "enqueue")

SpecMany == InitMany /\ [][Next]_vars

(***************************************************************************)
(* Runs into a destination directory that already holds files with the     *)
(* base name of the input files, or with names built from it.              *)
(***************************************************************************)
MaxTaken == 3
\* the content of a file that was in the directory before the run
Earlier == <<"<earlier content>", NL>>

InitNames ==
    \E n \in 1..MaxPoolFiles :
      \E d \in [1..n -> PoolContents] :
        \E taken \in SUBSET (0..(MaxTaken - 1)) :
          Quiet([i \in 1..n |->
                    [name |-> BaseNames[1], data |-> d[i], errAfter |-> NoErr]],
                [p \in {<<BaseNames[1], k>> : k \in taken} |-> Earlier],
                "enqueue")

SpecNames == InitNames /\ [][Next]_vars

(***************************************************************************)
(* processLogs alone over the same files, every goroutine that can take a  *)
(* step taking one in the end.  OpenFiles(j) can take a step exactly when  *)
(* wk[j].pc = "process", and its step leaves that state: its weak fairness *)
(* is written on that condition.                                           *)
(***************************************************************************)
NextPool ==
    \/ Enqueue
    \/ CloseJobs
    \/ StartJob
    \/ \E j \in 1..NFiles : OpenFiles(j)
    \/ \E j \in 1..NFiles : WriteRecord(j)
    \/ \E j \in 1..NFiles : Report(j)
    \/ WorkerExit
    \/ WaitAndCollect

Scheduling ==
    /\ WF_vars(Enqueue)
    /\ WF_vars(CloseJobs)
    /\ WF_vars(StartJob)
    /\ []<>(\A j \in 1..NFiles : wk[j].pc # "process")
    /\ WF_vars(\E j \in 1..NFiles : WriteRecord(j))
    /\ WF_vars(\E j \in 1..NFiles : Report(j))
    /\ WF_vars(WorkerExit)
    /\ WF_vars(WaitAndCollect)

FairMany == InitMany /\ [][NextPool]_vars /\ Scheduling

(***************************************************************************)
(* Runs in which files fail: input files that cannot be opened or hold no  *)
(* timestamp, and intermediate files that cannot be created.               *)
(***************************************************************************)
IntermediatePaths == {<<BaseNames[1], 0>>, mergedFilePath, orderedFilePath}

InitFail ==
    \E n \in 1..MaxPoolFiles :
      \E d \in [1..n -> PoolContents] :
        \E ea \in [1..n -> {NoErr, 0}] :
          \E uw \in SUBSET IntermediatePaths :
            QuietWith([i \in 1..n |->
                          [name |-> BaseNames[i], data |-> d[i], errAfter |-> ea[i]]],
                      EmptyDir, "enqueue", uw)

SpecFail == InitFail /\ [][Next]_vars

(***************************************************************************)
(* The Orderer and the Expander alone, on a merged stream: main from       *)
(* determineDateTimePattern(mergedFilePath) on.                            *)
(***************************************************************************)
\* coalesced records, as processLogFile writes them
RecordSet ==
    {<<P100, TStart, lineContinuationDelimiter, TStack>>, <<P100, TOther>>,
     <<P050, TOther>>, <<PBad, TOther>>, <<PYear0, TOther>>, <<C100, TOther>>}

\* A merged stream longer than maxInsertion: line k carries the k-th of
\* Seconds, but the first line carries the stamp of the line sort's
\* choosePivot takes as pivot (index 2 * (n / 4), counted from 0).
LongMerged ==
    [k \in 1..SortLen |->
        <<Seconds[IF k = 1 THEN 2 * (SortLen \div 4) + 1 ELSE k], ToString(k)>>]

InitOrder ==
    \E ls \in (UNION {[1..k -> RecordSet] : k \in 1..MaxMerged}) \cup {LongMerged} :
        Quiet(<<>>, Put(EmptyDir, mergedFilePath, WriteLines(ls)), "detect")

NextOrder ==
    \/ DetectMerged
    \/ Order
    \/ Format

SpecOrder == InitOrder /\ [][NextOrder]_vars

(***************************************************************************)
(* The Coalescer followed at once by the Expander, on one file.            *)
(***************************************************************************)
MaxRTLines == 3
RTLineSet ==
    {<<P100, TStart>>, <<TStack>>, <<>>, <<C100, TOther>>, <<TBig>>}

InitRT ==
    \E ls \in SeqsUpTo(RTLineSet, MaxRTLines) :
      \E terminated \in BOOLEAN :
        Quiet(<<[name |-> BaseNames[1],
                    data |-> IF terminated THEN WriteLines(ls) ELSE Join(ls, NL),
                    errAfter |-> NoErr]>>,
                 EmptyDir, "coalesce")

\* processLogFile(input, processFolder/base) from its first line to its return
RTCoalesce ==
    /\ pc = "coalesce"
    /\ LET in == inputs[1]
           dest == getUniqueFileName(fs, in.name)
           pattern == determineDateTimePattern(in.data, in.errAfter)
           c == Coalesce(in.data, pattern, in.errAfter)
       IN  /\ dateTimePattern' = pattern
           /\ IF pattern = NoPattern
              THEN fs' = fs /\ processedLogFiles' = <<>>
              ELSE /\ fs' = Put(fs, dest, WriteLines(c.recs))
                   /\ processedLogFiles' = IF c.err THEN <<>> ELSE <<dest>>
    /\ pc' = "expand"
    /\ UNCHANGED <<inputs, enq, jobs, wk, exited, results, errs, unwritable>>

\* formatSupport(processFolder/base, finalFormattedFilePath, pattern)
RTExpand ==
    /\ pc = "expand"
    /\ processedLogFiles # <<>>
    /\ fs' = Put(fs, finalFormattedFilePath,
                  formatSupport(fs[processedLogFiles[1]], dateTimePattern))
    /\ pc' = "expanded"
    /\ UNCHANGED <<inputs, enq, jobs, wk, exited, results, errs,
                   processedLogFiles, dateTimePattern, unwritable>>

NextRT ==
    \/ RTCoalesce
    \/ RTExpand

SpecRT == InitRT /\ [][NextRT]_vars

(***************************************************************************)
(* The Merger alone, on a list of coalesced files some of which cannot be  *)
(* opened: main at the call of mergeProcessedLogs.                         *)
(***************************************************************************)
MaxMergeFiles == 3
\* the contents of coalesced files: records, each ended by a line feed
CoalescedSet ==
    {WriteLines(rs) :
        rs \in SeqsUpTo({<<P100, TStart, lineContinuationDelimiter, TStack>>,
                         <<P050, TOther>>, <<C100, TOther>>}, 2)}

InitMerge ==
    \E n \in 0..MaxMergeFiles :
      \E c \in [1..n -> CoalescedSet] :
        \E present \in SUBSET (1..n) :
          /\ inputs = <<>>
          /\ fs = [p \in {<<BaseNames[i], 0>> : i \in present} |->
                      c[CHOOSE i \in present : p = <<BaseNames[i], 0>>]]
          /\ pc = "merge"
          /\ enq = 0
          /\ jobs = <<>>
          /\ wk = <<>>
          /\ exited = workerCount
          /\ results = [i \in 1..n |-> <<BaseNames[i], 0>>]
          /\ errs = <<>>
          /\ processedLogFiles = results
          /\ dateTimePattern = NoPattern
          /\ unwritable = {}

NextMerge == Merge

SpecMerge == InitMerge /\ [][NextMerge]_vars

(***************************************************************************)
(* The Pattern Detector alone, as processLogFile calls it on one file that *)
(* can or cannot be opened.                                                *)
(***************************************************************************)
MaxDetectLines == 6
DetectLineSet == {<<C100, TOther>>, <<P100, TStart>>, <<TStack>>, <<TBig>>}

InitDetect ==
    \E ls \in SeqsUpTo(DetectLineSet, MaxDetectLines) :
      \E terminated \in BOOLEAN :
        \E ea \in {NoErr, 0} :
          Quiet(<<[name |-> BaseNames[1],
                   data |-> IF terminated THEN WriteLines(ls) ELSE Join(ls, NL),
                   errAfter |-> ea]>>,
                EmptyDir, "detectfile")

\* processLogFile calls determineDateTimePattern and returns its error
DetectFile ==
    /\ pc = "detectfile"
    /\ dateTimePattern' = determineDateTimePattern(inputs[1].data, inputs[1].errAfter)
    /\ errs' = <<processLogFile(inputs[1].data, inputs[1].errAfter)>>
    /\ pc' = "detected"
    /\ UNCHANGED <<inputs, fs, enq, jobs, wk, exited, results,
                   processedLogFiles, unwritable>>

NextDetect == DetectFile

SpecDetect == InitDetect /\ [][NextDetect]_vars

(***************************************************************************)
(* Vocabulary of the properties.                                           *)
(***************************************************************************)
\* the physical lines of a file: what lies between its line feeds, a last
\* line counting whether or not a line feed ends it
PhysLines(data) ==
    LET parts == Split(data, NL)
    IN  IF parts[Len(parts)] = <<>> THEN SubSeq(parts, 1, Len(parts) - 1) ELSE parts

Count(seq, x) == Cardinality({i \in 1..Len(seq) : seq[i] = x})
SameBag(s, t) ==
    /\ Len(s) = Len(t)
    /\ \A i \in 1..Len(s) : Count(s, s[i]) = Count(t, s[i])

HasSentinel(line) == \E i \in 1..Len(line) : line[i] = lineContinuationDelimiter

\* the pattern detected for input file j
PatternOf(j) == determineDateTimePattern(inputs[j].data, inputs[j].errAfter)

\* every physical line of input file j matches the detected pattern or
\* follows a line that does, and none holds the sentinel
WellFormed(j) ==
    LET lines == PhysLines(inputs[j].data)
    IN  /\ inputs[j].errAfter = NoErr
        /\ PatternOf(j) # NoPattern
        /\ lines # <<>>
        /\ MatchString(PatternOf(j), lines[1])
        /\ \A i \in 1..Len(lines) : ~HasSentinel(lines[i])

Final == IF finalFormattedFilePath \in DOMAIN fs THEN fs[finalFormattedFilePath] ELSE <<>>

(***************************************************************************)
(* C1.  Coalesce/expand round trip: for an input file whose every physical *)
(* line matches the detected pattern or follows one that does, the         *)
(* Expander applied to the Coalescer's output gives back exactly the       *)
(* input's physical lines, in order.                                       *)
(***************************************************************************)
C1_RoundTrip ==
    (pc = "expanded" /\ WellFormed(1)) => PhysLines(Final) = PhysLines(inputs[1].data)

(***************************************************************************)
(* C2.  End-to-end losslessness: after a full run over input files whose   *)
(* lines all belong to timestamped records, the final artifact holds       *)
(* exactly the physical lines of the inputs, each record's lines together  *)
(* in their original order and whole records in ascending timestamp order; *)
(* the three-line scenario (record at .100 with one continuation line,     *)
(* then record at .050) gives the lines '.050 other', '.100 start',        *)
(* '  stack trace'.                                                        *)
(***************************************************************************)
\* the records of a file: each line matching the pattern opens a record, the
\* lines up to the next matching line belong to it
RECURSIVE RecordsOf(_, _, _)
RecordsOf(lines, pattern, acc) ==
    IF lines = <<>> THEN acc
    ELSE IF MatchString(pattern, Head(lines)) \/ acc = <<>>
    THEN RecordsOf(Tail(lines), pattern, Append(acc, <<Head(lines)>>))
    ELSE RecordsOf(Tail(lines), pattern,
                   [acc EXCEPT ![Len(acc)] = Append(@, Head(lines))])

\* the records of input files 1..n, each with the instant of its first line
RECURSIVE InputRecords(_)
InputRecords(n) ==
    IF n = 0 THEN <<>>
    ELSE LET recs == RecordsOf(PhysLines(inputs[n].data), PatternOf(n), <<>>)
         IN  InputRecords(n - 1) \o
                [i \in 1..Len(recs) |->
                    [Timestamp |-> parseTimestampFromLine(recs[i][1], PatternOf(n)).t,
                     Raw |-> WriteLines(recs[i])]]

ScenarioInput ==
    WriteLines(<<<<P100, TStart>>, <<TStack>>, <<P050, TOther>>>>)
ScenarioOutput ==
    WriteLines(<<<<P050, TOther>>, <<P100, TStart>>, <<TStack>>>>)

C2_EndToEndLossless ==
    (pc = "done" /\ \A j \in 1..NFiles : WellFormed(j)) =>
        /\ \E arr \in Arrangements(InputRecords(NFiles), 1..Len(InputRecords(NFiles))) :
              Final = Flatten([i \in 1..Len(arr) |-> arr[i].Raw])
        /\ (NFiles = 1 /\ inputs[1].data = ScenarioInput) => Final = ScenarioOutput

(***************************************************************************)
(* Vocabulary of the Orderer's properties.                                 *)
(***************************************************************************)
Ordered == pc \in {"format", "done"} /\ dateTimePattern # NoPattern
MergedLines == PhysLines(fs[mergedFilePath])
OrderedLines == PhysLines(fs[orderedFilePath])

\* the stamp the Orderer finds in a line, whether it parses, and its instant
StampOf(line) == Normalize(FindString(dateTimePattern, line))
Unparsable(line) == ~TimeParses(StampOf(line))
ParsedInstant(line) == TimeParse(StampOf(line))
\* the instant a line is ordered by: the zero instant when it does not parse
OrderInstant(line) == IF Unparsable(line) THEN ZeroTime ELSE ParsedInstant(line)

(***************************************************************************)
(* C3.  Order stability: two lines of the merged input with equal parsed   *)
(* timestamps (two unparsable lines included) keep their relative order in *)
(* the Orderer's output, for a merged input of any length.                 *)
(***************************************************************************)
C3_OrderStable ==
    Ordered =>
        \A t \in {OrderInstant(MergedLines[i]) : i \in 1..Len(MergedLines)} :
            LET At(l) == OrderInstant(l) = t
            IN  SelectSeq(OrderedLines, At) = SelectSeq(MergedLines, At)

(***************************************************************************)
(* C4.  With a pattern supplied the Orderer writes exactly one output line *)
(* per merged input line, a permutation of the input lines, and the parsed *)
(* timestamps of consecutive output lines never decrease.                  *)
(***************************************************************************)
C4_OrdererPermutationSorted ==
    Ordered =>
        /\ SameBag(OrderedLines, MergedLines)
        /\ \A i \in 1..(Len(OrderedLines) - 1) :
              OrderInstant(OrderedLines[i]) <= OrderInstant(OrderedLines[i + 1])

\* the Orderer has run on a stream it had to reorder
C4_Witness ==
    /\ pc = "format"
    /\ dateTimePattern # NoPattern
    /\ Len(MergedLines) >= 3
    /\ OrderedLines # MergedLines

(***************************************************************************)
(* C9.  Unparsable-timestamp handling, as claimed: a line with no          *)
(* substring matching the pattern, or whose match does not parse, is kept  *)
(* in the output and placed before every line whose timestamp parsed.      *)
(***************************************************************************)
C9_UnparsableBeforeAllParsed ==
    Ordered =>
        /\ \A i \in 1..Len(MergedLines) :
              Unparsable(MergedLines[i]) =>
                  Count(OrderedLines, MergedLines[i]) = Count(MergedLines, MergedLines[i])
        /\ \A i, j \in 1..Len(OrderedLines) :
              (Unparsable(OrderedLines[i]) /\ ~Unparsable(OrderedLines[j])) => i < j

(***************************************************************************)
(* C9, amended.  An unparsable line is ordered at the zero instant         *)
(* time.Time{} (January 1 of year 1): it is kept in the output, placed     *)
(* before every line whose parsed timestamp is later than the zero         *)
(* instant, and after every line whose parsed timestamp is earlier.        *)
(***************************************************************************)
C9_UnparsableAtZeroTime ==
    Ordered =>
        /\ \A i \in 1..Len(MergedLines) :
              Unparsable(MergedLines[i]) =>
                  Count(OrderedLines, MergedLines[i]) = Count(MergedLines, MergedLines[i])
        /\ \A i, j \in 1..Len(OrderedLines) :
              (Unparsable(OrderedLines[i]) /\ ~Unparsable(OrderedLines[j])) =>
                  /\ ParsedInstant(OrderedLines[j]) > ZeroTime => i < j
                  /\ ParsedInstant(OrderedLines[j]) < ZeroTime => j < i

\* the Orderer has moved a line without a match and a line whose match does
\* not parse in front of a parsed line that preceded them
C9_Witness ==
    /\ pc = "format"
    /\ dateTimePattern # NoPattern
    /\ Len(MergedLines) = 3
    /\ ~Unparsable(MergedLines[1]) /\ ParsedInstant(MergedLines[1]) > ZeroTime
    /\ FindString(dateTimePattern, MergedLines[2]) = ""
    /\ FindString(dateTimePattern, MergedLines[3]) = PBad
    /\ OrderedLines[3] = MergedLines[1]

(***************************************************************************)
(* C5.  Degraded-mode safety: when no pattern is detected for the merged   *)
(* stream, the final output is a copy of the merged input, the same lines  *)
(* in the same order, none dropped, split or altered.                      *)
(***************************************************************************)
C5_DegradedCopy ==
    (pc = "done" /\ dateTimePattern = NoPattern) => PhysLines(Final) = MergedLines

(***************************************************************************)
(* C6.  Partial-failure isolation: when one of N input files fails, the    *)
(* Dispatcher returns the destination paths of the other N-1 files, the    *)
(* merged stream holds their coalesced records and nothing else, and the   *)
(* final artifact holds their content.                                     *)
(***************************************************************************)
\* what the Coalescer is to write for input file j: each record's lines
\* joined by the sentinel, one record per line
ExpectedCoalesced(j) ==
    LET recs == RecordsOf(PhysLines(inputs[j].data), PatternOf(j), <<>>)
    IN  WriteLines([i \in 1..Len(recs) |-> Join(recs[i], lineContinuationDelimiter)])

Failed == {j \in 1..NFiles : \E i \in 1..Len(errs) : errs[i] = j}

RECURSIVE LinesOfFiles(_)
LinesOfFiles(js) ==
    IF js = {} THEN <<>>
    ELSE LET j == CHOOSE j \in js : TRUE
         IN  PhysLines(inputs[j].data) \o LinesOfFiles(js \ {j})

C6_PartialFailureIsolation ==
    LET others == (1..NFiles) \ Failed
    IN  (pc = "done" /\ Cardinality(Failed) = 1 /\ \A j \in others : WellFormed(j)) =>
            /\ Len(processedLogFiles) = NFiles - 1
            /\ SameBag([i \in 1..Len(processedLogFiles) |-> fs[processedLogFiles[i]]],
                       [i \in 1..Len(processedLogFiles) |->
                           ExpectedCoalesced(
                               CHOOSE j \in others :
                                   Cardinality({k \in others : k <= j}) = i)])
            /\ fs[mergedFilePath] =
                  Flatten([i \in 1..Len(processedLogFiles) |-> fs[processedLogFiles[i]]])
            /\ SameBag(PhysLines(Final), LinesOfFiles(others))

(***************************************************************************)
(* C7.  Collision safety under concurrency: in every interleaving two      *)
(* input files with the same base name get distinct destination paths, and *)
(* each coalesced file holds the output of its own worker alone.           *)
(***************************************************************************)
C7_CollisionSafe ==
    /\ \A i, j \in 1..NFiles :
          (/\ i # j
           /\ WellFormed(i) /\ WellFormed(j)
           /\ wk[i].pc # "idle" /\ wk[j].pc # "idle") => wk[i].dest # wk[j].dest
    /\ \A j \in 1..NFiles :
          (WellFormed(j) /\ wk[j].pc = "done" /\ pc # "enqueue" /\ pc # "wait") =>
              fs[wk[j].dest] = ExpectedCoalesced(j)

(***************************************************************************)
(* C8.  Join barrier: the Merger and every later stage start only when no  *)
(* worker is still processing a file: every input file then has its one    *)
(* outcome, a success or a failure, and no coalesced file is being written.*)
(***************************************************************************)
C8_JoinBarrier ==
    (pc \notin {"enqueue", "wait"}) =>
        /\ jobs = <<>>
        /\ Busy = {}
        /\ \A j \in 1..NFiles : wk[j].pc = "done" /\ wk[j].todo = <<>>
        /\ Len(results) + Len(errs) = NFiles
        /\ processedLogFiles = results

\* the Merger is about to start after a run with a success and a failure
C8_Witness ==
    /\ pc = "merge"
    /\ NFiles = 2
    /\ Len(results) = 1
    /\ Len(errs) = 1

(***************************************************************************)
(* C10.  Sentinel containment: no input line holding the sentinel, no line *)
(* of the final artifact holds it, whatever the set of input files, files  *)
(* of the comma pattern mixed with files of the period pattern included.   *)
(***************************************************************************)
C10_NoSentinelInFinal ==
    (/\ pc = "done"
     /\ \A j \in 1..NFiles : ~HasSentinel(inputs[j].data)) => ~HasSentinel(Final)

(***************************************************************************)
(* C11.  The pipeline always completes with a final artifact: whatever     *)
(* files fail (an input that cannot be opened or holds no timestamp, all   *)
(* inputs failing, an intermediate file that cannot be created), once the  *)
(* run is at its end the final formatted file exists.                      *)
(***************************************************************************)
C11_FinalArtifactExists ==
    pc = "done" => finalFormattedFilePath \in DOMAIN fs

(***************************************************************************)
(* C12.  Exactly one outcome per input file: in every interleaving each    *)
(* path sent on the job queue is taken by exactly one worker and yields    *)
(* exactly one outcome, a destination path on results or an error on errs, *)
(* never both and never none; at the barrier the results and the errors    *)
(* together number the input files.                                        *)
(***************************************************************************)
Succeeded == {j \in 1..NFiles : wk[j].pc = "done" /\ ~wk[j].err}

C12_ExactlyOneOutcome ==
    /\ \A j \in 1..NFiles :
          /\ Count(jobs, j) + (IF wk[j].pc # "idle" THEN 1 ELSE 0)
                = (IF j <= enq THEN 1 ELSE 0)
          /\ Count(errs, j) = (IF wk[j].pc = "done" /\ wk[j].err THEN 1 ELSE 0)
    /\ Len(results) = Cardinality(Succeeded)
    /\ \A i \in 1..Len(results) : \E j \in Succeeded : wk[j].dest = results[i]
    /\ (pc \notin {"enqueue", "wait"}) =>
          /\ \A j \in 1..NFiles : wk[j].pc = "done"
          /\ Len(results) + Len(errs) = NFiles

\* the second file has its outcome while a worker still writes the first
C12_Witness ==
    /\ NFiles = 2
    /\ wk[1].pc = "write"
    /\ wk[2].pc = "done"
    /\ Len(results) + Len(errs) = 1

(***************************************************************************)
(* C13.  Pattern detection on a readable source: the result is the         *)
(* recognized pattern of the first of the first 5 lines that matches the   *)
(* comma form or the period form, and it is empty if and only if none of   *)
(* the first 5 lines matches either, whatever the later lines hold.        *)
(***************************************************************************)
Recognized(line) ==
    {p \in {defaultPattern, supportPattern} : MatchString(p, line)}

C13_DetectFirstFive ==
    (pc = "detected" /\ inputs[1].errAfter = NoErr) =>
        LET lines == PhysLines(inputs[1].data)
            hits == {i \in 1..Len(lines) : i <= 5 /\ Recognized(lines[i]) # {}}
        IN  IF hits = {} THEN dateTimePattern = NoPattern
            ELSE dateTimePattern \in
                    Recognized(lines[CHOOSE i \in hits : \A k \in hits : i <= k])

(***************************************************************************)
(* C14.  An unreadable source is told apart from 'no pattern found': for a *)
(* file that cannot be opened the Pattern Detector's result, and the       *)
(* failure reason of the Coalescer, differ from those of a readable file   *)
(* with no matching line.                                                  *)
(***************************************************************************)
NoMatchFile == WriteLines(<<<<TStack>>>>)

C14_UnreadableDistinct ==
    (pc = "detected" /\ inputs[1].errAfter = 0) =>
        /\ dateTimePattern # determineDateTimePattern(NoMatchFile, NoErr)
        /\ errs[1] # processLogFile(NoMatchFile, NoErr)

(***************************************************************************)
(* C15.  The Merger is a pure concatenation: the merged file holds the     *)
(* lines of each coalesced file that can be opened, the files in the order *)
(* of the list and the lines in their order in each file, none added,      *)
(* dropped or reordered; a file that cannot be opened adds nothing and the *)
(* files after it are still merged.                                        *)
(***************************************************************************)
RECURSIVE LinesOfPaths(_)
LinesOfPaths(paths) ==
    IF paths = <<>> THEN <<>>
    ELSE (IF Head(paths) \in DOMAIN fs THEN PhysLines(fs[Head(paths)]) ELSE <<>>)
             \o LinesOfPaths(Tail(paths))

C15_MergerConcatenates ==
    pc = "detect" =>
        /\ mergedFilePath \in DOMAIN fs
        /\ MergedLines = LinesOfPaths(processedLogFiles)

\* the Merger has run on three files of which the second cannot be opened
C15_Witness ==
    /\ pc = "detect"
    /\ Len(processedLogFiles) = 3
    /\ processedLogFiles[2] \notin DOMAIN fs
    /\ processedLogFiles[1] \in DOMAIN fs /\ Len(PhysLines(fs[processedLogFiles[1]])) = 2
    /\ processedLogFiles[3] \in DOMAIN fs /\ Len(PhysLines(fs[processedLogFiles[3]])) = 2
    /\ Len(MergedLines) = 4

(***************************************************************************)
(* C16.  A file for which the Pattern Detector returns no match is skipped *)
(* entirely: it gets a per-file failure, no destination file is created    *)
(* for it, its path is not in the list the Dispatcher returns, and the     *)
(* other files are processed as if it were not there.                      *)
(***************************************************************************)
Skipped == {j \in 1..NFiles : PatternOf(j) = NoPattern}
CoalescedPaths ==
    DOMAIN fs \ {mergedFilePath, orderedFilePath, finalFormattedFilePath}
\* file k shares its base name with no other file that is not skipped
AloneOfName(k) ==
    \A i \in (1..NFiles) \ (Skipped \cup {k}) : inputs[i].name # inputs[k].name

C16_NoMatchSkipped ==
    /\ \A j \in Skipped : wk[j].pc = "done" => Count(errs, j) = 1
    /\ \A p \in CoalescedPaths :
          \E k \in (1..NFiles) \ Skipped : wk[k].pc \in {"write", "done"} /\ wk[k].dest = p
    /\ (pc \notin {"enqueue", "wait"}) =>
          /\ Len(processedLogFiles) <= NFiles - Cardinality(Skipped)
          /\ \A i \in 1..Len(processedLogFiles) :
                \E k \in (1..NFiles) \ Skipped : wk[k].dest = processedLogFiles[i]
          /\ \A k \in (1..NFiles) \ Skipped :
                (inputs[k].errAfter = NoErr /\ AloneOfName(k)) =>
                    /\ wk[k].dest = <<inputs[k].name, 0>>
                    /\ fs[wk[k].dest] = ExpectedCoalesced(k)
                    /\ Count(processedLogFiles, wk[k].dest) = 1

\* a run over two files of one base name, the first without a timestamp, is
\* past the barrier with the second file's path alone
C16_Witness ==
    /\ pc = "merge"
    /\ NFiles = 2
    /\ inputs[1].name = inputs[2].name
    /\ Skipped = {1}
    /\ processedLogFiles = <<wk[2].dest>>

(***************************************************************************)
(* Vocabulary of the Coalescer's properties, for a run on one file.        *)
(***************************************************************************)
Coalesced == pc \in {"expand", "expanded"} /\ dateTimePattern # NoPattern
InputLines == PhysLines(inputs[1].data)
CoalescedLines == PhysLines(fs[<<inputs[1].name, 0>>])
Matching(line) == MatchString(dateTimePattern, line)
\* the input lines before the first line that matches the pattern
Orphans ==
    LET hits == {i \in 1..Len(InputLines) : Matching(InputLines[i])}
    IN  IF hits = {} THEN InputLines
        ELSE SubSeq(InputLines, 1, (CHOOSE i \in hits : \A k \in hits : i <= k) - 1)
Unterminated == inputs[1].data # <<>> /\ inputs[1].data[Len(inputs[1].data)] # NL

(***************************************************************************)
(* C17.  Orphan case: every non-matching line before the first matching    *)
(* line of a file is emitted at once as an output line of its own,         *)
(* unmodified and joined to no record, so the coalesced file starts with   *)
(* these lines (stated for files whose last line ends in a line feed).     *)
(***************************************************************************)
C17_OrphansEmitted ==
    (Coalesced /\ ~Unterminated) =>
        /\ Len(CoalescedLines) >= Len(Orphans)
        /\ SubSeq(CoalescedLines, 1, Len(Orphans)) = Orphans

(***************************************************************************)
(* C18.  Coalescer record structure: the coalesced file holds exactly one  *)
(* record per matching input line, in input order, each the matching line  *)
(* followed by the sentinel and the line for every non-matching line up to *)
(* the next matching line; the last record is written at end of input.     *)
(***************************************************************************)
C18_RecordStructure ==
    Coalesced =>
        LET Opens(rec) == Matching(rec[1])
            recs == SelectSeq(RecordsOf(InputLines, dateTimePattern, <<>>), Opens)
        IN  CoalescedLines =
                [i \in 1..Len(recs) |-> Join(recs[i], lineContinuationDelimiter)]

(***************************************************************************)
(* C20.  A last input line without a line feed is processed like any other *)
(* line: if it matches it is the last record of the coalesced file, else   *)
(* it is the last continuation of the last record.                         *)
(***************************************************************************)
C20_LastLineProcessed ==
    (Coalesced /\ Unterminated) =>
        LET last == InputLines[Len(InputLines)]
            tail == <<lineContinuationDelimiter>> \o last
        IN  /\ CoalescedLines # <<>>
            /\ LET rec == CoalescedLines[Len(CoalescedLines)]
               IN  IF Matching(last) THEN rec = last
                   ELSE /\ Len(rec) > Len(tail)
                        /\ SubSeq(rec, Len(rec) - Len(tail) + 1, Len(rec)) = tail

(***************************************************************************)
(* C19.  Expander completeness and order: on the file the Orderer wrote,   *)
(* the Expander gives output for every line, the last included: a line     *)
(* matching the pattern gives its fragments between sentinels, in order, a *)
(* non-matching line gives itself, and the output is these in the order of *)
(* the ordered lines.                                                      *)
(***************************************************************************)
C19_ExpanderComplete ==
    (pc = "done" /\ dateTimePattern # NoPattern) =>
        PhysLines(Final) =
            Flatten([i \in 1..Len(OrderedLines) |->
                        IF MatchString(dateTimePattern, OrderedLines[i])
                        THEN Split(OrderedLines[i], lineContinuationDelimiter)
                        ELSE <<OrderedLines[i]>>])

(***************************************************************************)
(* C21.  Bounded parallelism: in every state of the Dispatcher at most     *)
(* workerCount (5) input files are being coalesced at the same time,       *)
(* whatever the number of input files, and a file is in the hands of one   *)
(* worker only, which writes its records one after the other.              *)
(***************************************************************************)
C21_BoundedParallelism ==
    /\ Cardinality(Busy) <= 5
    /\ Cardinality(Busy) + exited <= 5
    /\ \A j \in 1..NFiles :
          /\ Count(jobs, j) <= 1
          /\ wk[j].pc # "idle" => Count(jobs, j) = 0
          /\ wk[j].pc \in {"write", "done"} =>
                wk[j].off = Len(WriteLines(Coalesce(inputs[j].data, PatternOf(j),
                                                    inputs[j].errAfter).recs))
                               - Len(WriteLines(wk[j].todo))

\* five files are being coalesced while a sixth waits in the queue
C21_Witness ==
    /\ Cardinality(Busy) = 5
    /\ jobs # <<>>
    /\ NFiles > 5

(***************************************************************************)
(* C22.  Name disambiguation: a worker's destination is the given path     *)
(* when nothing exists at it, else the name with the smallest suffix       *)
(* k >= 1 at which nothing exists; the path names no file that existed     *)
(* when the check was made, and a file that was in the directory before    *)
(* the run is never overwritten.                                           *)
(***************************************************************************)
C22_NameDisambiguation ==
    [][/\ \A j \in 1..NFiles :
             (wk[j].pc = "idle" /\ wk'[j].pc # "idle") =>
                 /\ wk'[j].dest[1] = inputs[j].name
                 /\ wk'[j].dest \notin DOMAIN fs
                 /\ \A k \in 0..(wk'[j].dest[2] - 1) : <<inputs[j].name, k>> \in DOMAIN fs
       /\ \A p \in DOMAIN fs : fs[p] = Earlier => (p \in DOMAIN fs' /\ fs'[p] = Earlier)
      ]_vars

\* with the base name and its first suffix taken before the run, a file has
\* been coalesced under the second suffix and the earlier files are intact
C22_Witness ==
    /\ {<<BaseNames[1], k>> : k \in 0..2} \subseteq DOMAIN fs
    /\ fs[<<BaseNames[1], 0>>] = Earlier
    /\ fs[<<BaseNames[1], 1>>] = Earlier
    /\ wk[1].pc = "done"
    /\ wk[1].dest = <<BaseNames[1], 2>>
    /\ fs[<<BaseNames[1], 2>>] = ExpectedCoalesced(1)

(***************************************************************************)
(* C24.  The Dispatcher never deadlocks: for fewer files than workers, as  *)
(* many, or more, and for any interleaving, every job is taken in the end, *)
(* no worker stays blocked on a send, every worker exits once the job      *)
(* queue is closed, and processLogs returns.                               *)
(***************************************************************************)
C24_DispatcherReturns ==
    <>(/\ pc = "merge"
       /\ jobs = <<>>
       /\ exited = workerCount
       /\ \A j \in 1..NFiles : wk[j].pc = "done")

\* processLogs has returned from a run over more files than workers
C24_Witness ==
    /\ pc = "merge"
    /\ NFiles > workerCount
    /\ Len(processedLogFiles) = NFiles

(***************************************************************************)
(* C23.  Every line of a coalesced file holds a match of the pattern       *)
(* detected for its input file; hence, when the files processed with       *)
(* success all have one pattern and there is a record, that pattern is the *)
(* one detected for the merged stream and every merged line matches it, so *)
(* that the Orderer finds a timestamp in every line.  Stated for runs over *)
(* files of distinct base names.                                           *)
(***************************************************************************)
DistinctNames ==
    \A i, j \in 1..NFiles : i # j => inputs[i].name # inputs[j].name

C23_MergedPatternIsFilesPattern ==
    (DistinctNames /\ pc \in {"order", "format", "done"}) =>
        /\ \A j \in Succeeded :
              \A i \in 1..Len(PhysLines(fs[wk[j].dest])) :
                  MatchString(PatternOf(j), PhysLines(fs[wk[j].dest])[i])
        /\ \A p \in {defaultPattern, supportPattern} :
              (/\ \A j \in Succeeded : PatternOf(j) = p
               /\ MergedLines # <<>>) =>
                  /\ dateTimePattern = p
                  /\ \A i \in 1..Len(MergedLines) :
                        FindString(dateTimePattern, MergedLines[i]) # ""

(***************************************************************************)
(* C25.  Determinism: for a fixed set of input files the final artifact is *)
(* the same for every interleaving and completion order of the workers: it *)
(* is the artifact of the run in which the files complete in input order.  *)
(* Stated for runs over readable files of distinct base names.             *)
(***************************************************************************)
\* the final artifact when the results are collected in input order
InOrderFinal ==
    LET ok == SelectSeq([j \in 1..NFiles |-> j],
                        LAMBDA j : PatternOf(j) # NoPattern)
        merged == Flatten([i \in 1..Len(ok) |->
                              WriteLines(Coalesce(inputs[ok[i]].data, PatternOf(ok[i]),
                                                  NoErr).recs)])
        pattern == determineDateTimePattern(merged, NoErr)
        ordered == CHOOSE out \in orderByDate(merged, pattern) : TRUE
    IN  formatSupport(ordered, pattern)

C25_FinalIndependentOfInterleaving ==
    (/\ pc = "done"
     /\ DistinctNames
     /\ \A j \in 1..NFiles : inputs[j].errAfter = NoErr) => Final = InOrderFinal

====
